---- MODULE Spec2Model ----
(***************************************************************************)
(* A model of the Gemma chat application: the interactive terminal client  *)
(* (src/chat.py) and the FastAPI model service (src/api.py).               *)
(*                                                                         *)
(*   Spec         the chat client's loop; the server it talks to is its    *)
(*                environment (any HTTP response, or none).                *)
(*   ServiceSpec  the model service under requests of arbitrary clients,   *)
(*                scheduled by one asyncio event loop.                     *)
(*                                                                         *)
(* Text is a sequence of one-character strings, so that strip() and        *)
(* lower() are computed and not assumed.                                   *)
(***************************************************************************)
EXTENDS Naturals, Integers, Sequences, FiniteSets

VARIABLES
    \* ---- chat client (src/chat.py) ----
    cpc,          \* position of main(): "start", "input", "posting", "done", "crashed"
    history,      \* the local list `history`
    user_input,   \* the local `user_input` (stripped line last read)
    request,      \* the POST /chat body in flight, NoRequest when none
    warned,       \* the health-check warning has been printed
    branch,       \* the branch of the loop body that ran last
    log,          \* history variable: the (input, reply) pairs of the successful
                  \* turns since the start or the last clear, none dropped
    \* ---- model service (src/api.py) ----
    service,      \* the process: "loading", "serving", "terminated"
    loop,         \* the slot whose coroutine holds the event loop, 0 when none
    spc,          \* per connection: position of its request in the service
    sreq,         \* per connection: the HTTP request received
    calls,        \* per connection: how often log_requests awaited call_next
    messages,     \* per connection: the handler's local list `messages`
    exc,          \* per connection: the exception caught in chat(), NoExc when none
    result,       \* per connection: what the downstream call produced
    resp          \* per connection: the HTTP response sent back

cvars == <<cpc, history, user_input, request, warned, branch>>
svars == <<service, loop, spc, sreq, calls, messages, exc, result, resp>>
vars  == <<cpc, history, user_input, request, warned, branch, log,
           service, loop, spc, sreq, calls, messages, exc, result, resp>>

Min(a, b) == IF a < b THEN a ELSE b
Max(a, b) == IF a > b THEN a ELSE b

----------------------------------------------------------------------------
(* Text: str.strip() and str.lower()                                       *)

Whitespace == {" ", "\t", "\n"}

UpperCase == <<"A","B","C","D","E","F","G","H","I","J","K","L","M",
               "N","O","P","Q","R","S","T","U","V","W","X","Y","Z">>
LowerCase == <<"a","b","c","d","e","f","g","h","i","j","k","l","m",
               "n","o","p","q","r","s","t","u","v","w","x","y","z">>

LowerChar(c) ==
    IF \E k \in 1..Len(UpperCase) : UpperCase[k] = c
    THEN LowerCase[CHOOSE k \in 1..Len(UpperCase) : UpperCase[k] = c]
    ELSE c

\* str.lower()
Lower(s) == [k \in 1..Len(s) |-> LowerChar(s[k])]

RECURSIVE LStrip(_)
LStrip(s) ==
    IF s # <<>> /\ Head(s) \in Whitespace THEN LStrip(Tail(s)) ELSE s

RECURSIVE RStrip(_)
RStrip(s) ==
    IF s # <<>> /\ s[Len(s)] \in Whitespace
    THEN RStrip(SubSeq(s, 1, Len(s) - 1))
    ELSE s

\* str.strip()
Strip(s) == RStrip(LStrip(s))

\* The texts of the model.
Hello == <<"H","e","l","l","o">>
Ok    == <<"o","k">>
Boom  == <<"b","o","o","m">>

----------------------------------------------------------------------------
(* JSON values, tagged with their JSON type                                *)

JStr(s)  == [t |-> "str", v |-> s]
JInt(n)  == [t |-> "int", v |-> n]
JList(l) == [t |-> "list", v |-> l]
JObj(f)  == [t |-> "obj", v |-> f]
JNull    == [t |-> "null", v |-> <<>>]
\* A body that is not JSON at all.
NotJson  == [t |-> "text", v |-> <<>>]

HasKey(obj, k) == k \in DOMAIN obj.v

\* dict.get(k, default) on a decoded JSON object
Get(obj, k, default) == IF HasKey(obj, k) THEN obj.v[k] ELSE default

Message(role, content) == [role |-> role, content |-> content]

----------------------------------------------------------------------------
(* Chat client: src/chat.py                                                *)

SEND_LIMIT == 10
KEEP_LIMIT == 20
CLIENT_MAX_LENGTH == 500
\* 0.7, in tenths
CLIENT_TEMPERATURE == 7

NoRequest == [message |-> <<>>, history |-> <<>>, max_length |-> 0, temperature |-> 0]

\* s[-n:] of a Python list
LastSliceFirst(s, n) == SubSeq(s, 1, Min(n, Len(s)))
LastSlice(s, n) == SubSeq(s, Max(Len(s) - n, 0) + 1, Len(s))

\* The lines the user may type.
RawInputs ==
    { <<>>, <<" ", "\t">>,
      <<"q","u","i","t">>, <<" ","E","x","i","t","\n">>,
      <<"c","l","e","a","r">>, <<" ","C","L","E","A","R"," ">>,
      Hello, <<" ","H","e","l","l","o","\n">> }

\* The if-chain of the loop body on the stripped line.
CommandKeepsEmpty(text) ==
    IF Lower(text) \in {<<"q","u","i","t">>, <<"e","x","i","t">>} THEN "quit"
    ELSE IF Lower(text) = <<"c","l","e","a","r">> THEN "clear"
    ELSE "chat"
Command(text) ==
    IF text = <<>> THEN "empty"
    ELSE IF Lower(text) \in {<<"q","u","i","t">>, <<"e","x","i","t">>} THEN "quit"
    ELSE IF Lower(text) = <<"c","l","e","a","r">> THEN "clear"
    ELSE "chat"

\* The request body of one turn.
PayloadFirstTen(text, hist) ==
    [message |-> text, history |-> LastSliceFirst(hist, SEND_LIMIT),
     max_length |-> CLIENT_MAX_LENGTH, temperature |-> CLIENT_TEMPERATURE]
PayloadLowered(text, hist) ==
    [message |-> Lower(text), history |-> LastSlice(hist, SEND_LIMIT),
     max_length |-> CLIENT_MAX_LENGTH, temperature |-> CLIENT_TEMPERATURE]
PayloadLastNine(text, hist) ==
    [message |-> text, history |-> LastSlice(hist, SEND_LIMIT - 1),
     max_length |-> CLIENT_MAX_LENGTH, temperature |-> CLIENT_TEMPERATURE]
Payload(text, hist) ==
    [message |-> text, history |-> LastSlice(hist, SEND_LIMIT),
     max_length |-> CLIENT_MAX_LENGTH, temperature |-> CLIENT_TEMPERATURE]

\* The two appends of a successful turn.
AppendedReplyFirst(hist, text, reply) ==
    hist \o <<Message("assistant", reply), Message("user", text)>>
Appended(hist, text, reply) ==
    hist \o <<Message("user", text), Message("assistant", reply)>>

\* "Keep history manageable locally too"
TruncatedOffByOne(hist) ==
    IF Len(hist) > KEEP_LIMIT + 2 THEN LastSlice(hist, KEEP_LIMIT) ELSE hist
TruncatedKeepsOldest(hist) ==
    IF Len(hist) > KEEP_LIMIT THEN LastSliceFirst(hist, KEEP_LIMIT) ELSE hist
Truncated(hist) ==
    IF Len(hist) > KEEP_LIMIT THEN LastSlice(hist, KEEP_LIMIT) ELSE hist

UpdateHistory(hist, text, reply) == Truncated(Appended(hist, text, reply))

\* What the server, or the network, may answer to the client.
Responses ==
    { [status |-> 200, body |-> JObj([response |-> JStr(<<" ">> \o Ok \o <<"\n">>)])],
      [status |-> 200, body |-> JObj([model |-> JStr(Ok)])],
      [status |-> 200, body |-> JObj([response |-> JNull])],
      [status |-> 200, body |-> JList(<<>>)],
      [status |-> 200, body |-> NotJson],
      [status |-> 500, body |-> JObj([detail |-> JStr(Boom)])],
      [status |-> 422, body |-> JObj([detail |-> JList(<<Boom>>)])],
      [status |-> 500, body |-> NotJson] }

\* Response.is_success, which raise_for_status() tests
IsSuccess(status) == status >= 200 /\ status < 300

\* response.json() then data.get("response", "").strip() do not raise
Readable(body) ==
    /\ body.t = "obj"
    /\ Get(body, "response", JStr(<<>>)).t = "str"

BotResponse(body) == Strip(Get(body, "response", JStr(<<>>)).v)

ClientInit ==
    /\ cpc = "start"
    /\ history = <<>>
    /\ user_input = <<>>
    /\ request = NoRequest
    /\ warned = FALSE
    /\ branch = "welcome"

\* httpx.get of the health endpoint: answered, or RequestError and a warning
HealthCheckGivesUp ==
    /\ cpc = "start"
    /\ \E reachable \in BOOLEAN :
         /\ warned' = ~reachable
         /\ cpc' = IF reachable THEN "input" ELSE "done"
    /\ branch' = "health"
    /\ UNCHANGED <<history, user_input, request>>
HealthCheck ==
    /\ cpc = "start"
    /\ \E reachable \in BOOLEAN : warned' = ~reachable
    /\ cpc' = "input"
    /\ branch' = "health"
    /\ UNCHANGED <<history, user_input, request>>

\* Ctrl-C during the health check is outside every try block
HealthInterrupt ==
    /\ cpc = "start"
    /\ cpc' = "crashed"
    /\ branch' = "traceback"
    /\ UNCHANGED <<history, user_input, request, warned>>

EmptyInput ==
    /\ cpc = "input"
    /\ \E raw \in RawInputs :
         /\ Command(Strip(raw)) = "empty"
         /\ user_input' = Strip(raw)
    /\ branch' = "empty"
    /\ UNCHANGED <<cpc, history, request, warned>>

Quit ==
    /\ cpc = "input"
    /\ \E raw \in RawInputs :
         /\ Command(Strip(raw)) = "quit"
         /\ user_input' = Strip(raw)
    /\ cpc' = "done"
    /\ branch' = "quit"
    /\ UNCHANGED <<history, request, warned>>

ClearKeeps ==
    /\ cpc = "input"
    /\ \E raw \in RawInputs :
         /\ Command(Strip(raw)) = "clear"
         /\ user_input' = Strip(raw)
    /\ branch' = "clear"
    /\ UNCHANGED <<cpc, history, request, warned>>
Clear ==
    /\ cpc = "input"
    /\ \E raw \in RawInputs :
         /\ Command(Strip(raw)) = "clear"
         /\ user_input' = Strip(raw)
    /\ history' = <<>>
    /\ branch' = "clear"
    /\ UNCHANGED <<cpc, request, warned>>

\* payload = {...}; httpx.post(API_URL, json=payload, timeout=120.0) is sent
SendTurn ==
    /\ cpc = "input"
    /\ \E raw \in RawInputs :
         /\ Command(Strip(raw)) = "chat"
         /\ user_input' = Strip(raw)
    /\ request' = Payload(user_input', history)
    /\ cpc' = "posting"
    /\ branch' = "post"
    /\ UNCHANGED <<history, warned>>

\* KeyboardInterrupt at input()
InputInterrupt ==
    /\ cpc = "input"
    /\ cpc' = "done"
    /\ branch' = "interrupt"
    /\ UNCHANGED <<history, user_input, request, warned>>

\* EOFError at input()
InputEOF ==
    /\ cpc = "input"
    /\ cpc' = "done"
    /\ branch' = "eof"
    /\ UNCHANGED <<history, user_input, request, warned>>

\* A 2xx answer r whose body reads: the reply is printed and the turn recorded
TurnSucceedsWith(r) ==
    /\ cpc = "posting"
    /\ IsSuccess(r.status)
    /\ Readable(r.body)
    /\ history' = UpdateHistory(history, user_input, BotResponse(r.body))
    /\ branch' = IF Len(Appended(history, user_input, BotResponse(r.body))) > Len(history')
                 THEN "ok_truncated" ELSE "ok"
    /\ cpc' = "input"
    /\ request' = NoRequest
    /\ UNCHANGED <<user_input, warned>>

TurnSucceeds == \E r \in Responses : TurnSucceedsWith(r)

\* raise_for_status() raises httpx.HTTPStatusError
TurnHttpErrorKeepsUser ==
    /\ cpc = "posting"
    /\ \E r \in Responses : ~IsSuccess(r.status)
    /\ cpc' = "input"
    /\ request' = NoRequest
    /\ branch' = "http_error"
    /\ history' = Append(history, Message("user", user_input))
    /\ UNCHANGED <<user_input, warned>>
TurnHttpError ==
    /\ cpc = "posting"
    /\ \E r \in Responses : ~IsSuccess(r.status)
    /\ cpc' = "input"
    /\ request' = NoRequest
    /\ branch' = "http_error"
    /\ UNCHANGED <<history, user_input, warned>>

\* httpx.post raises httpx.RequestError: no connection, or the 120 s timeout
TurnRequestError ==
    /\ cpc = "posting"
    /\ cpc' = "input"
    /\ request' = NoRequest
    /\ branch' = "request_error"
    /\ UNCHANGED <<history, user_input, warned>>

\* any other Exception while the answer is read
TurnOtherError ==
    /\ cpc = "posting"
    /\ \E r \in Responses : IsSuccess(r.status) /\ ~Readable(r.body)
    /\ cpc' = "input"
    /\ request' = NoRequest
    /\ branch' = "error"
    /\ UNCHANGED <<history, user_input, warned>>

\* KeyboardInterrupt while the request is in flight
PostInterruptCrashes ==
    /\ cpc = "posting"
    /\ cpc' = "crashed"
    /\ request' = NoRequest
    /\ branch' = "traceback"
    /\ UNCHANGED <<history, user_input, warned>>
PostInterrupt ==
    /\ cpc = "posting"
    /\ cpc' = "done"
    /\ request' = NoRequest
    /\ branch' = "interrupt"
    /\ UNCHANGED <<history, user_input, warned>>

----------------------------------------------------------------------------
(* Model service: src/api.py                                               *)

\* Connections the service has open at once.
NSlots == 2
Slots == 1..NSlots

DEFAULT_MAX_LENGTH == 200
\* 0.7, in tenths
DEFAULT_TEMPERATURE == 7

Gemma == <<"g","e","m","m","a","3","-","1","b","-","i","t">>

NoHttp   == [method |-> "NONE", path |-> "", body |-> NotJson]
NoResult == [kind |-> "none", status |-> 0, body |-> NotJson]
NoExc    == <<>>

\* One history entry as it travels in the request body.
JMessage(role, content) == JObj([role |-> JStr(role), content |-> JStr(content)])

\* httpx.post(API_URL, json=payload): the payload as the JSON body on the wire
JsonBody(payload) ==
    JObj([message |-> JStr(payload.message),
          history |-> JList([k \in 1..Len(payload.history) |->
                               JMessage(payload.history[k].role, payload.history[k].content)]),
          max_length |-> JInt(payload.max_length),
          temperature |-> JInt(payload.temperature)])

\* The HTTP requests clients send.
HttpRequests ==
    { [method |-> "GET", path |-> "/", body |-> NotJson],
      [method |-> "POST", path |-> "/chat",
       body |-> JObj([message |-> JStr(Hello)])],
      [method |-> "POST", path |-> "/chat",
       body |-> JObj([message |-> JStr(Ok),
                      history |-> JList(<<JMessage("user", Hello),
                                          JMessage("system", Ok)>>),
                      max_length |-> JInt(CLIENT_MAX_LENGTH),
                      temperature |-> JInt(1)])],
      [method |-> "POST", path |-> "/chat",
       body |-> JObj([message |-> JStr(Hello),
                      history |-> JList(<<JObj([role |-> JStr("user")])>>)])],
      [method |-> "POST", path |-> "/chat", body |-> NotJson] }

\* class Message(BaseModel): role: str, content: str
ValidMessage(e) ==
    /\ e.t = "obj"
    /\ HasKey(e, "role") /\ e.v.role.t = "str"
    /\ HasKey(e, "content") /\ e.v.content.t = "str"

\* class ChatRequest(BaseModel): the body validates against the schema
ValidChatRequest(body) ==
    /\ body.t = "obj"
    /\ HasKey(body, "message") /\ body.v.message.t = "str"
    /\ HasKey(body, "history") =>
         /\ body.v.history.t = "list"
         /\ \A k \in 1..Len(body.v.history.v) : ValidMessage(body.v.history.v[k])
    /\ HasKey(body, "max_length") => body.v.max_length.t = "int"
    /\ HasKey(body, "temperature") => body.v.temperature.t = "int"

\* The ChatRequest object built from a valid body, defaults filled in.
ChatRequest(body) ==
    [message |-> body.v.message.v,
     history |->
        IF HasKey(body, "history")
        THEN [k \in 1..Len(body.v.history.v) |->
                Message(body.v.history.v[k].v.role.v, body.v.history.v[k].v.content.v)]
        ELSE <<>>,
     max_length |-> Get(body, "max_length", JInt(DEFAULT_MAX_LENGTH)).v,
     temperature |-> Get(body, "temperature", JInt(DEFAULT_TEMPERATURE)).v]

\* messages = []
ListOfAnotherRequest ==
    LET all == {messages[j] : j \in Slots}
    IN  CHOOSE m \in all : \A n \in all : Len(n) <= Len(m)
NewList == <<>>

\* for msg in request.history: messages.append(...); messages.append(user turn)
RECURSIVE AppendEach(_, _)
AppendEach(list, hist) ==
    IF hist = <<>> THEN list
    ELSE AppendEach(Append(list, Message(Head(hist).role, Head(hist).content)),
                    Tail(hist))

chat_messages_user_first(req) ==
    AppendEach(Append(NewList, Message("user", req.message)), req.history)
chat_messages(req) ==
    Append(AppendEach(NewList, req.history), Message("user", req.message))

\* The steps of chat() inside its try block, in order.
HandlerSteps == {"assemble", "render", "generate", "decode"}

\* str(e) of the exception a failing step raises
ErrorText(step) ==
    CASE step = "assemble" -> <<"M","e","m","o","r","y">>
      [] step = "render"   -> <<"t","e","m","p","l","a","t","e">>
      [] step = "generate" -> <<"O","O","M">>
      [] OTHER             -> <<"d","e","c","o","d","e">>

\* The texts generation may decode to.
Generated == { <<" ">> \o Ok }

\* The steps at which chat() awaits, and so lets other coroutines run: none.
AwaitsGenerate == {"generate"}
AwaitPoints == {}

\* raise HTTPException(status_code=500, detail=str(e))
HttpExceptionGeneric(e) ==
    [kind |-> "response", status |-> 500,
     body |-> JObj([detail |-> JStr(<<"I","n","t","e","r","n","a","l">>)])]
HttpException(e) ==
    [kind |-> "response", status |-> 500, body |-> JObj([detail |-> JStr(e)])]

\* return {"response": response_text}
ChatResponse(text) ==
    [kind |-> "response", status |-> 200, body |-> JObj([response |-> JStr(text)])]

\* return {"status": "ok", "model": "gemma3-1b-it"}
HealthResponse ==
    [kind |-> "response", status |-> 200,
     body |-> JObj([status |-> JStr(Ok), model |-> JStr(Gemma)])]

\* FastAPI's answer to a body that fails ChatRequest validation
ValidationAsServerError ==
    [kind |-> "response", status |-> 500,
     body |-> JObj([detail |-> JStr(<<"m","i","s","s","i","n","g">>)])]
ValidationResponse ==
    [kind |-> "response", status |-> 422,
     body |-> JObj([detail |-> JList(<<JObj([type |-> JStr(<<"m","i","s","s","i","n","g">>)])>>)])]

\* The framework's answer when an exception leaves the middleware
BareServerError == [kind |-> "response", status |-> 500, body |-> NotJson]

Raised == [kind |-> "raised", status |-> 0, body |-> NotJson]

ServiceInit ==
    /\ service = "loading"
    /\ loop = 0
    /\ spc = [i \in Slots |-> "idle"]
    /\ sreq = [i \in Slots |-> NoHttp]
    /\ calls = [i \in Slots |-> 0]
    /\ messages = [i \in Slots |-> <<>>]
    /\ exc = [i \in Slots |-> NoExc]
    /\ result = [i \in Slots |-> NoResult]
    /\ resp = [i \in Slots |-> NoResult]

\* The tokenizer and the model load: the module body runs on to the endpoints
LoadModel ==
    /\ service = "loading"
    /\ service' = "serving"
    /\ UNCHANGED <<loop, spc, sreq, calls, messages, exc, result, resp>>

\* The load raises: raise RuntimeError(...) ends the process
LoadFails ==
    /\ service = "loading"
    /\ service' = "terminated"
    /\ UNCHANGED <<loop, spc, sreq, calls, messages, exc, result, resp>>

\* A client's request arrives on a free connection.
ReceiveWhenever(i) ==
    /\ service # "loading"
    /\ spc[i] = "idle"
    /\ \E r \in HttpRequests : sreq' = [sreq EXCEPT ![i] = r]
    /\ spc' = [spc EXCEPT ![i] = "arrived"]
    /\ UNCHANGED <<service, loop, calls, messages, exc, result, resp>>
Receive(i) ==
    /\ service = "serving"
    /\ spc[i] = "idle"
    /\ \E r \in HttpRequests : sreq' = [sreq EXCEPT ![i] = r]
    /\ spc' = [spc EXCEPT ![i] = "arrived"]
    /\ UNCHANGED <<service, loop, calls, messages, exc, result, resp>>

\* The coroutine of connection i may run: it holds the loop, or the loop is free.
Runs(i) == loop = i \/ loop = 0

\* Who holds the loop once connection i has moved to `step`.
Holder(i, step) == IF step \in HandlerSteps \ AwaitPoints THEN i ELSE 0

\* log_requests: log the request, then response = await call_next(request)
MwEnter(i) ==
    /\ spc[i] = "arrived"
    /\ loop = 0
    /\ calls' = [calls EXCEPT ![i] = 1]
    /\ spc' = [spc EXCEPT ![i] = "downstream"]
    /\ UNCHANGED <<service, loop, sreq, messages, exc, result, resp>>

\* The downstream call raises an exception that no handler turns into a response.
DownstreamRaises(i) ==
    /\ spc[i] = "downstream"
    /\ loop = 0
    /\ result' = [result EXCEPT ![i] = Raised]
    /\ spc' = [spc EXCEPT ![i] = "raised"]
    /\ UNCHANGED <<service, loop, sreq, calls, messages, exc, resp>>

\* GET /: root()
RootHandler(i) ==
    /\ spc[i] = "downstream"
    /\ loop = 0
    /\ sreq[i].path = "/"
    /\ result' = [result EXCEPT ![i] = HealthResponse]
    /\ spc' = [spc EXCEPT ![i] = "returned"]
    /\ UNCHANGED <<service, loop, sreq, calls, messages, exc, resp>>

\* POST /chat with a body that is no ChatRequest: chat() is not entered
RejectInvalid(i) ==
    /\ spc[i] = "downstream"
    /\ loop = 0
    /\ sreq[i].path = "/chat"
    /\ ~ValidChatRequest(sreq[i].body)
    /\ result' = [result EXCEPT ![i] = ValidationResponse]
    /\ spc' = [spc EXCEPT ![i] = "returned"]
    /\ UNCHANGED <<service, loop, sreq, calls, messages, exc, resp>>

\* POST /chat with a valid body: chat() is entered and logs the request
HandlerEnter(i) ==
    /\ spc[i] = "downstream"
    /\ loop = 0
    /\ sreq[i].path = "/chat"
    /\ ValidChatRequest(sreq[i].body)
    /\ spc' = [spc EXCEPT ![i] = "assemble"]
    /\ loop' = Holder(i, "assemble")
    /\ UNCHANGED <<service, sreq, calls, messages, exc, result, resp>>

\* 1. Construct messages
Assemble(i) ==
    /\ spc[i] = "assemble"
    /\ Runs(i)
    /\ messages' = [messages EXCEPT ![i] = chat_messages(ChatRequest(sreq[i].body))]
    /\ spc' = [spc EXCEPT ![i] = "render"]
    /\ loop' = Holder(i, "render")
    /\ UNCHANGED <<service, sreq, calls, exc, result, resp>>

\* 2. Apply chat template and tokenize; model.generate(...) is then called
Render(i) ==
    /\ spc[i] = "render"
    /\ Runs(i)
    /\ spc' = [spc EXCEPT ![i] = "generate"]
    /\ loop' = Holder(i, "generate")
    /\ UNCHANGED <<service, sreq, calls, messages, exc, result, resp>>

\* 3. model.generate(...) returns
Generate(i) ==
    /\ spc[i] = "generate"
    /\ Runs(i)
    /\ spc' = [spc EXCEPT ![i] = "decode"]
    /\ loop' = Holder(i, "decode")
    /\ UNCHANGED <<service, sreq, calls, messages, exc, result, resp>>

\* 4. Decode result; return {"response": response_text}
Decode(i) ==
    /\ spc[i] = "decode"
    /\ Runs(i)
    /\ \E text \in Generated : result' = [result EXCEPT ![i] = ChatResponse(text)]
    /\ spc' = [spc EXCEPT ![i] = "returned"]
    /\ loop' = 0
    /\ UNCHANGED <<service, sreq, calls, messages, exc, resp>>

\* A step of the try block raises: control is at `except Exception as e`
StepFails(i) ==
    /\ spc[i] \in HandlerSteps
    /\ Runs(i)
    /\ exc' = [exc EXCEPT ![i] = ErrorText(spc[i])]
    /\ spc' = [spc EXCEPT ![i] = "except"]
    /\ loop' = i
    /\ UNCHANGED <<service, sreq, calls, messages, result, resp>>

\* except Exception as e: log, raise HTTPException; FastAPI renders it
Except(i) ==
    /\ spc[i] = "except"
    /\ loop = i
    /\ result' = [result EXCEPT ![i] = HttpException(exc[i])]
    /\ spc' = [spc EXCEPT ![i] = "returned"]
    /\ loop' = 0
    /\ UNCHANGED <<service, sreq, calls, messages, exc, resp>>

\* log_requests resumes with the response: it is logged (first call) and returned
MwReturn(i) ==
    /\ spc[i] = "returned"
    /\ loop = 0
    /\ resp' = [resp EXCEPT ![i] = result[i]]
    /\ spc' = [spc EXCEPT ![i] = "responded"]
    /\ UNCHANGED <<service, loop, sreq, calls, messages, exc, result>>

\* except Exception as e: logger.error(...); return await call_next(request)
MwExcept(i) ==
    /\ spc[i] = "raised"
    /\ loop = 0
    /\ calls[i] = 1
    /\ calls' = [calls EXCEPT ![i] = 2]
    /\ spc' = [spc EXCEPT ![i] = "downstream"]
    /\ UNCHANGED <<service, loop, sreq, messages, exc, result, resp>>

\* The second call raises inside the except block: the exception leaves log_requests
MwPropagate(i) ==
    /\ spc[i] = "raised"
    /\ loop = 0
    /\ calls[i] = 2
    /\ resp' = [resp EXCEPT ![i] = BareServerError]
    /\ spc' = [spc EXCEPT ![i] = "responded"]
    /\ UNCHANGED <<service, loop, sreq, calls, messages, exc, result>>

\* The client has read the response; the connection is free again.
Collect(i) ==
    /\ spc[i] = "responded"
    /\ spc' = [spc EXCEPT ![i] = "idle"]
    /\ sreq' = [sreq EXCEPT ![i] = NoHttp]
    /\ calls' = [calls EXCEPT ![i] = 0]
    /\ messages' = [messages EXCEPT ![i] = <<>>]
    /\ exc' = [exc EXCEPT ![i] = NoExc]
    /\ result' = [result EXCEPT ![i] = NoResult]
    /\ resp' = [resp EXCEPT ![i] = NoResult]
    /\ UNCHANGED <<service, loop>>

----------------------------------------------------------------------------
Init == ClientInit /\ ServiceInit /\ log = <<>>

Next ==
    \/ (HealthCheck /\ UNCHANGED <<svars, log>>)
    \/ (HealthInterrupt /\ UNCHANGED <<svars, log>>)
    \/ (EmptyInput /\ UNCHANGED <<svars, log>>)
    \/ (Quit /\ UNCHANGED <<svars, log>>)
    \/ (Clear /\ UNCHANGED <<svars, log>>)
    \/ (SendTurn /\ UNCHANGED <<svars, log>>)
    \/ (InputInterrupt /\ UNCHANGED <<svars, log>>)
    \/ (InputEOF /\ UNCHANGED <<svars, log>>)
    \/ (TurnSucceeds /\ UNCHANGED <<svars, log>>)
    \/ (TurnHttpError /\ UNCHANGED <<svars, log>>)
    \/ (TurnRequestError /\ UNCHANGED <<svars, log>>)
    \/ (TurnOtherError /\ UNCHANGED <<svars, log>>)
    \/ (PostInterrupt /\ UNCHANGED <<svars, log>>)

Spec == Init /\ [][Next]_vars

\* The client's loop with the full record of its successful turns kept beside
\* the local history; at most MaxTurns turns are recorded between two clears.
MaxTurns == 11

LoggedNext ==
    \/ (HealthCheck /\ UNCHANGED <<svars, log>>)
    \/ (HealthInterrupt /\ UNCHANGED <<svars, log>>)
    \/ (EmptyInput /\ UNCHANGED <<svars, log>>)
    \/ (Quit /\ UNCHANGED <<svars, log>>)
    \/ (Clear /\ log' = <<>> /\ UNCHANGED svars)
    \/ (Len(log) < MaxTurns /\ SendTurn /\ UNCHANGED <<svars, log>>)
    \/ (InputInterrupt /\ UNCHANGED <<svars, log>>)
    \/ (InputEOF /\ UNCHANGED <<svars, log>>)
    \/ (\E r \in Responses :
          /\ TurnSucceedsWith(r)
          /\ log' = Append(log, <<user_input, Strip(Get(r.body, "response", JStr(<<>>)).v)>>)
          /\ UNCHANGED svars)
    \/ (TurnHttpError /\ UNCHANGED <<svars, log>>)
    \/ (TurnRequestError /\ UNCHANGED <<svars, log>>)
    \/ (TurnOtherError /\ UNCHANGED <<svars, log>>)
    \/ (PostInterrupt /\ UNCHANGED <<svars, log>>)

LoggedSpec == Init /\ [][LoggedNext]_vars

ServiceNext ==
    \/ (LoadModel /\ UNCHANGED <<cvars, log>>)
    \/ (LoadFails /\ UNCHANGED <<cvars, log>>)
    \/ \E i \in Slots :
         \/ (Receive(i) /\ UNCHANGED <<cvars, log>>)
         \/ (MwEnter(i) /\ UNCHANGED <<cvars, log>>)
         \/ (DownstreamRaises(i) /\ UNCHANGED <<cvars, log>>)
         \/ (RootHandler(i) /\ UNCHANGED <<cvars, log>>)
         \/ (RejectInvalid(i) /\ UNCHANGED <<cvars, log>>)
         \/ (HandlerEnter(i) /\ UNCHANGED <<cvars, log>>)
         \/ (Assemble(i) /\ UNCHANGED <<cvars, log>>)
         \/ (Render(i) /\ UNCHANGED <<cvars, log>>)
         \/ (Generate(i) /\ UNCHANGED <<cvars, log>>)
         \/ (Decode(i) /\ UNCHANGED <<cvars, log>>)
         \/ (StepFails(i) /\ UNCHANGED <<cvars, log>>)
         \/ (Except(i) /\ UNCHANGED <<cvars, log>>)
         \/ (MwReturn(i) /\ UNCHANGED <<cvars, log>>)
         \/ (MwExcept(i) /\ UNCHANGED <<cvars, log>>)
         \/ (MwPropagate(i) /\ UNCHANGED <<cvars, log>>)
         \/ (Collect(i) /\ UNCHANGED <<cvars, log>>)

ServiceSpec == Init /\ [][ServiceNext]_vars

----------------------------------------------------------------------------
(* Properties of the chat client, checked under Spec                       *)

Clear5 == <<"c","l","e","a","r">>
FailedBranches == {"http_error", "request_error", "error"}

\* C1: the history field of every POST /chat the client has in flight holds
\* exactly the last min(10, n) entries of the n-entry local history, in their
\* order, and so never more than 10 entries.
C1_SentHistoryIsLastTen ==
    cpc = "posting" =>
        LET n == Len(history)
            m == IF n < 10 THEN n ELSE 10
        IN  /\ Len(request.history) = m
            /\ Len(request.history) <= 10
            /\ \A j \in 1..m : request.history[j] = history[n - m + j]

C1_Witness ==
    /\ cpc = "posting"
    /\ Len(history) = 20
    /\ Len(request.history) = 10
    /\ request.history[2] # history[2]

\* C2: whenever the loop is about to read the next input, the local history
\* holds at most 20 entries.
C2_HistoryAtMostTwenty ==
    cpc = "input" => Len(history) <= 20

C2_Witness ==
    /\ cpc = "input"
    /\ branch = "ok_truncated"
    /\ Len(history) = 20

\* C3: a turn that fails (non-2xx status, no connection or timeout, any other
\* exception while the answer is read) leaves the local history as it was,
\* leaves no request in flight, and returns the loop to reading input.
C3_FailedTurnDropped ==
    [][(cpc = "posting" /\ branch' \in FailedBranches) =>
          /\ history' = history
          /\ request' = NoRequest
          /\ cpc' = "input"]_vars

C3_Witness ==
    /\ cpc = "input"
    /\ branch = "http_error"
    /\ request = NoRequest
    /\ Len(history) = 20

\* C6: a line that is `clear` once stripped and lower-cased empties the local
\* history, sends no request, and leaves the loop reading input.
C6_ClearResetsWithoutRequest ==
    [][(/\ cpc = "input"
        /\ branch' \notin {"interrupt", "eof"}
        /\ Lower(user_input') = Clear5) =>
          /\ history' = <<>>
          /\ request' = NoRequest
          /\ cpc' = "input"]_vars

C6_Witness ==
    /\ cpc = "input"
    /\ branch = "clear"
    /\ user_input = <<"C","L","E","A","R">>
    /\ history = <<>>
    /\ request = NoRequest

----------------------------------------------------------------------------
(* Properties of the model service, checked under ServiceSpec              *)

IsChat(i) == sreq[i].method = "POST" /\ sreq[i].path = "/chat"

\* The list `messages` of connection i is complete: it went to prompt rendering.
Assembled(i) == spc[i] \in {"render", "generate", "decode"}

\* C4: the logging middleware calls the downstream handler at most once for
\* every request, also when the downstream call raises.
C4_CallNextAtMostOnce ==
    \A i \in Slots : calls[i] <= 1

\* C5: the message list handed to prompt rendering is the request's history
\* entries in order, role and content unchanged, followed by one user entry
\* holding the request's message: len(history) + 1 entries, one user turn when
\* the history is empty.
C5_MessagesAreHistoryThenUser ==
    \A i \in Slots : Assembled(i) =>
        LET body == sreq[i].body.v
            hist == IF "history" \in DOMAIN body THEN body.history.v ELSE <<>>
            n    == Len(hist)
        IN  /\ Len(messages[i]) = n + 1
            /\ \A k \in 1..n :
                 /\ messages[i][k].role = hist[k].v.role.v
                 /\ messages[i][k].content = hist[k].v.content.v
            /\ messages[i][n + 1] = [role |-> "user", content |-> body.message.v]
            /\ (n = 0 => messages[i] = <<[role |-> "user", content |-> body.message.v]>>)

C5_Witness ==
    \E i \in Slots :
        /\ spc[i] = "render"
        /\ Len(messages[i]) = 3
        /\ messages[i][2].role = "system"
        /\ messages[i][3].role = "user"

\* C7: a chat call in which a step of the try block failed is answered with
\* HTTP 500 whose detail is the failure's description; the process keeps
\* serving and the event loop is free for the requests that follow.
C7_FailedChatAnswered500 ==
    \A i \in Slots : exc[i] # NoExc =>
        /\ service = "serving"
        /\ spc[i] \in {"returned", "responded"} => loop # i
        /\ spc[i] = "returned" =>
             /\ result[i].status = 500
             /\ result[i].body = [t |-> "obj", v |-> [detail |-> [t |-> "str", v |-> exc[i]]]]
        /\ spc[i] = "responded" =>
             /\ resp[i].status = 500
             /\ resp[i].body = [t |-> "obj", v |-> [detail |-> [t |-> "str", v |-> exc[i]]]]

C7_Witness ==
    \E i \in Slots :
        /\ spc[i] = "responded"
        /\ exc[i] = <<"O","O","M">>
        /\ resp[i].status = 500
        /\ \E j \in Slots : j # i /\ spc[j] = "arrived"

Is200Response(r) ==
    /\ r.status = 200
    /\ r.body.t = "obj"
    /\ DOMAIN r.body.v = {"response"}
    /\ r.body.v.response.t = "str"

Is500Detail(r) ==
    /\ r.status = 500
    /\ r.body.t = "obj"
    /\ DOMAIN r.body.v = {"detail"}
    /\ r.body.v.detail.t = "str"

Is422Detail(r) ==
    /\ r.status = 422
    /\ r.body.t = "obj"
    /\ DOMAIN r.body.v = {"detail"}
    /\ r.body.v.detail.t = "list"

IsBare500(r) == r.status = 500 /\ r.body.t = "text"

C9_OneHandlerAtATime ==
    Cardinality({i \in Slots : spc[i] \in HandlerSteps \cup {"except"}}) <= 1

C9_Witness ==
    \E i, j \in Slots :
        /\ i # j
        /\ spc[i] = "generate"
        /\ spc[j] = "downstream" /\ IsChat(j) /\ ValidChatRequest(sreq[j].body)

----------------------------------------------------------------------------
(* Further properties of the chat client, checked under Spec               *)

\* The list chat() assembles from the request the client has in flight.
AssembledFromClient == chat_messages(ChatRequest(JsonBody(request)))

\* C11 as stated: on a turn with empty history and input "Hello" the body
\* posted is {"message":"Hello","history":[],"max_length":200,"temperature":0.7}.
C11_FirstBodyMaxLength200 ==
    (cpc = "posting" /\ history = <<>> /\ user_input = Hello) =>
        JsonBody(request) =
            [t |-> "obj",
             v |-> [message |-> [t |-> "str", v |-> Hello],
                    history |-> [t |-> "list", v |-> <<>>],
                    max_length |-> [t |-> "int", v |-> 200],
                    temperature |-> [t |-> "int", v |-> 7]]]

\* C11 as amended: the body posted on that turn is
\* {"message":"Hello","history":[],"max_length":500,"temperature":0.7}.
C11_FirstBodyMaxLength500 ==
    (cpc = "posting" /\ history = <<>> /\ user_input = Hello) =>
        JsonBody(request) =
            [t |-> "obj",
             v |-> [message |-> [t |-> "str", v |-> Hello],
                    history |-> [t |-> "list", v |-> <<>>],
                    max_length |-> [t |-> "int", v |-> 500],
                    temperature |-> [t |-> "int", v |-> 7]]]

C11_Witness ==
    /\ cpc = "posting"
    /\ branch = "post"
    /\ history = <<>>
    /\ user_input = Hello
    /\ request.message = Hello

\* C13: a health check that cannot connect prints the warning and still
\* enters the input loop, and a request posted after the warning is built
\* from the input and the history alone, as it is without the warning.
C13_WarningDoesNotStopChat ==
    /\ [][(cpc = "start" /\ warned') => cpc' = "input"]_vars
    /\ [](cpc = "posting" =>
            \E m \in 0..10 :
                /\ m = (IF Len(history) < 10 THEN Len(history) ELSE 10)
                /\ request = [message |-> user_input,
                              history |-> SubSeq(history, Len(history) - m + 1, Len(history)),
                              max_length |-> 500, temperature |-> 7])

C13_Witness ==
    /\ warned
    /\ cpc = "posting"
    /\ history = <<>>
    /\ request.message = Hello
    /\ request.history = <<>>

\* C14: an interrupt or end of input, while the loop waits for input or has a
\* request in flight, ends the loop in its normal terminated state with no
\* request left; the loop never ends in an unhandled exception, and a
\* terminated client sends nothing more.
C14_InterruptEndsLoopGracefully ==
    [][/\ cpc \in {"input", "posting"} => cpc' # "crashed"
       /\ (cpc \in {"input", "posting"} /\ branch' \in {"interrupt", "eof"}) =>
             (cpc' = "done" /\ request' = NoRequest)
       /\ cpc = "done" => (cpc' = "done" /\ request' = NoRequest)]_vars

C14_Witness ==
    /\ cpc = "done"
    /\ branch = "interrupt"
    /\ user_input = Hello
    /\ history = <<>>
    /\ request = NoRequest

\* C15: a line that is empty once stripped sends no request, leaves the local
\* history as it was, and leaves the loop reading input.
C15_EmptyInputIgnored ==
    [][(/\ cpc = "input"
        /\ branch' \notin {"interrupt", "eof"}
        /\ user_input' = <<>>) =>
          /\ history' = history
          /\ request' = NoRequest
          /\ cpc' = "input"]_vars

C15_Witness ==
    /\ cpc = "input"
    /\ branch = "empty"
    /\ user_input = <<>>
    /\ Len(history) = 20

\* C17: whenever the loop reads input the local history has even length and
\* its roles alternate user, assistant, ..., from a user entry to an
\* assistant entry.
C17_HistoryAlternates ==
    cpc = "input" =>
        /\ Len(history) % 2 = 0
        /\ \A j \in 1..Len(history) :
             history[j].role = (IF j % 2 = 1 THEN "user" ELSE "assistant")

C17_Witness ==
    /\ cpc = "input"
    /\ branch = "ok_truncated"
    /\ Len(history) = 20
    /\ history[1].role = "user"
    /\ history[20].role = "assistant"

\* C18: the list the service assembles from a request of the client alternates
\* user and assistant, begins with a user entry and ends with the new user
\* message; the 10-entry cut never splits a turn.
C18_AssembledAlternates ==
    cpc = "posting" =>
        LET msgs == AssembledFromClient
        IN  /\ Len(msgs) % 2 = 1
            /\ \A j \in 1..Len(msgs) :
                 msgs[j].role = (IF j % 2 = 1 THEN "user" ELSE "assistant")
            /\ msgs[Len(msgs)] = [role |-> "user", content |-> user_input]

C18_Witness ==
    /\ cpc = "posting"
    /\ Len(history) = 20
    /\ Len(AssembledFromClient) = 11
    /\ AssembledFromClient[1].role = "user"

----------------------------------------------------------------------------
(* Further properties of the model service, checked under ServiceSpec      *)

\* C12: when the load fails the process is terminated for good and no
\* request, GET / included, is ever received or answered; none is before the
\* load has finished either.
C12_NoServiceAfterFailedLoad ==
    /\ [](service # "serving" =>
            \A i \in Slots : spc[i] = "idle" /\ resp[i] = NoResult)
    /\ [][service = "terminated" => service' = "terminated"]_vars

C12_Witness ==
    /\ service = "terminated"
    /\ \A i \in Slots : spc[i] = "idle" /\ resp[i] = NoResult

----------------------------------------------------------------------------
(* The sliding window, checked under LoggedSpec                            *)

\* Entry j of the full conversation: the pairs of `log` laid out in order.
FullLogEntry(j) ==
    IF j % 2 = 1
    THEN [role |-> "user", content |-> log[(j + 1) \div 2][1]]
    ELSE [role |-> "assistant", content |-> log[j \div 2][2]]

\* C16: with k successful turns since the start or the last clear, the local
\* history is the last min(20, 2k) entries of the full conversation of those
\* turns, in order: each turn adds its pair, and a full window loses exactly
\* its oldest pair.
C16_HistoryIsWindowOfLog ==
    LET k == Len(log)
        n == IF 2 * k < 20 THEN 2 * k ELSE 20
    IN  /\ Len(history) = n
        /\ \A j \in 1..n : history[j] = FullLogEntry(2 * k - n + j)

C16_Witness ==
    /\ cpc = "input"
    /\ branch = "ok_truncated"
    /\ Len(log) = 11
    /\ Len(history) = 20
    /\ history[2].content = log[2][2]
    /\ history[2].content # log[1][2]

====
